---- MODULE Spec2Model ----
(***************************************************************************)
(* Verification model of the Minecraft Wiki API repository.                *)
(*                                                                         *)
(* Part 1: PageContentParser (src/README.md, lines 420-954): a parser      *)
(* instance holding options, and one parsePageContent call run stage by    *)
(* stage over a markup tree.                                               *)
(*                                                                         *)
(* Markup is modelled structurally.  A page is the set of document-level   *)
(* selectors that match in it plus the subtree below the located content   *)
(* container.  A subtree is a sequence of nodes in document order, each    *)
(* naming its parent (0 is the content container itself).  Attribute       *)
(* values and text are sequences of tokens, so prefixing a base URL,       *)
(* startsWith, includes and the blank-line regular expression are          *)
(* computed, not assumed.                                                  *)
(*                                                                         *)
(* Part 2: the port manager (src/unnamed/part_000), the server process     *)
(* started by startServer (src/src/index.js) and the configuration module  *)
(* (src/README.md, lines 278-419).  Promises, event listeners and timers   *)
(* are modelled by one action per callback; other processes bind and       *)
(* release ports between any two of them.                                  *)
(***************************************************************************)
EXTENDS Integers, Sequences, FiniteSets, TLC

\* Largest number of nodes of a generated content subtree.
MaxNodes == 3

\* ------------------------------------------------------------------------
\* Token strings
\* ------------------------------------------------------------------------

\* String.prototype.startsWith / includes on one-token needles.
StartsWith(s, tok) == Len(s) > 0 /\ s[1] = tok
Includes(s, tok) == \E i \in 1..Len(s) : s[i] = tok
IsPrefix(p, s) == Len(p) <= Len(s) /\ SubSeq(s, 1, Len(p)) = p

SetMax(S) == CHOOSE x \in S : \A y \in S : y <= x
SetMin(S) == CHOOSE x \in S : \A y \in S : x <= y

\* Whitespace tokens: "n" is a line feed, "s" any other whitespace.
IsWs(tok) == tok \in {"n", "s"}

\* String.prototype.trim.
RECURSIVE TrimLeft(_)
TrimLeft(s) == IF Len(s) > 0 /\ IsWs(s[1]) THEN TrimLeft(Tail(s)) ELSE s
RECURSIVE TrimRight(_)
TrimRight(s) ==
    IF Len(s) > 0 /\ IsWs(s[Len(s)]) THEN TrimRight(SubSeq(s, 1, Len(s) - 1)) ELSE s
Trim(s) == TrimRight(TrimLeft(s))

\* Index of the last token of the whitespace run that holds position i.
RECURSIVE WsEnd(_, _)
WsEnd(s, i) == IF i < Len(s) /\ IsWs(s[i + 1]) THEN WsEnd(s, i + 1) ELSE i

\* text.replace(/\n\s*\n\s*\n/g, '\n\n'): a match starts at a line feed that
\* is followed, inside the same whitespace run, by at least two more; the
\* greedy \s* carries it to the last line feed of the run.
RECURSIVE CollapseFrom(_, _)
CollapseFrom(s, i) ==
    IF i > Len(s) THEN <<>>
    ELSE LET e == WsEnd(s, i)
             nl == {k \in i..e : s[k] = "n"}
         IN IF s[i] = "n" /\ Cardinality(nl) >= 3
            THEN <<"n", "n">> \o CollapseFrom(s, SetMax(nl) + 1)
            ELSE <<s[i]>> \o CollapseFrom(s, i + 1)
CollapseBlankLines(s) == CollapseFrom(s, 1)

\* ------------------------------------------------------------------------
\* Markup tree (the cheerio adapter)
\* ------------------------------------------------------------------------

PresentationAttrs == {"style", "border", "cellpadding", "cellspacing"}

\* An element.  src, href and alt are <<>> when the attribute is absent or
\* empty (the parser tests them only for truthiness); width and height are
\* -1 when absent.
Elem(tag, id, cls) ==
    [tag |-> tag, parent |-> 0, id |-> id, cls |-> cls, attrs |-> {},
     src |-> <<>>, href |-> <<>>, alt |-> <<>>, width |-> -1, height |-> -1,
     text |-> <<>>]
TextNode(toks) == [Elem("#text", "", <<>>) EXCEPT !.text = toks]
Img(src, w, h) == [Elem("img", "", <<>>) EXCEPT !.src = src, !.width = w, !.height = h]
Anchor(href, cls) == [Elem("a", "", cls) EXCEPT !.href = href]
WithAttrs(nd, as) == [nd EXCEPT !.attrs = as]
\* What is left of a node once it is detached from the tree.
Detached == Elem("#gone", "", <<>>)

Nodes(t) == 1..Len(t)
Live(t) == {i \in Nodes(t) : t[i].tag # "#gone"}
IsElement(t, i) == i \in Live(t) /\ t[i].tag # "#text"
IsText(t, i) == i \in Live(t) /\ t[i].tag = "#text"

RECURSIVE Ancestors(_, _)
Ancestors(t, i) ==
    IF t[i].parent = 0 THEN {} ELSE {t[i].parent} \cup Ancestors(t, t[i].parent)
Descendants(t, i) == {j \in Live(t) : i \in Ancestors(t, j)}
Children(t, i) == {j \in Live(t) : t[j].parent = i}
HasClass(nd, c) == Includes(nd.cls, c)

\* .remove(): every node of S leaves the tree with its subtree.
Remove(t, S) ==
    [i \in Nodes(t) |->
        IF i \in S \/ Ancestors(t, i) \cap S # {} THEN Detached ELSE t[i]]

PrevSibling(t, i) ==
    LET S == {j \in Live(t) : t[j].parent = t[i].parent /\ j < i}
    IN IF S = {} THEN 0 ELSE SetMax(S)
NextSibling(t, i) ==
    LET S == {j \in Live(t) : t[j].parent = t[i].parent /\ j > i}
    IN IF S = {} THEN 0 ELSE SetMin(S)
PrevElementSibling(t, i) ==
    LET S == {j \in Live(t) : t[j].parent = t[i].parent /\ j < i /\ IsElement(t, j)}
    IN IF S = {} THEN 0 ELSE SetMax(S)

\* .text(): the text of a node's subtree in document order.
RECURSIVE TextFrom(_, _, _)
TextFrom(t, S, i) ==
    IF i > Len(t) THEN <<>>
    ELSE (IF i \in S /\ IsText(t, i) THEN t[i].text ELSE <<>>) \o TextFrom(t, S, i + 1)
TextOf(t, i) == TextFrom(t, Descendants(t, i) \cup {i}, 1)

\* Serializing and loading again ($content.html(...), cheerio.load(...)):
\* text nodes that became neighbours are one text node afterwards.
RECURSIVE RunText(_, _)
RunText(t, i) ==
    LET nx == NextSibling(t, i)
    IN t[i].text \o (IF nx # 0 /\ IsText(t, nx) THEN RunText(t, nx) ELSE <<>>)
IsRunHead(t, i) ==
    IsText(t, i) /\ (PrevSibling(t, i) = 0 \/ ~IsText(t, PrevSibling(t, i)))
Reparse(t) ==
    [i \in Nodes(t) |->
        IF ~IsText(t, i) THEN t[i]
        ELSE IF IsRunHead(t, i) THEN [t[i] EXCEPT !.text = RunText(t, i)]
        ELSE Detached]

\* ------------------------------------------------------------------------
\* Selectors of the content subtree
\* ------------------------------------------------------------------------

Cls(c) == [kind |-> "class", a |-> c, b |-> ""]
Tag(x) == [kind |-> "tag", a |-> x, b |-> ""]
\* '#i + .c'
Adjacent(i, c) == [kind |-> "adjacent", a |-> i, b |-> c]
\* '.c1 .c2'
Inside(c1, c2) == [kind |-> "inside", a |-> c1, b |-> c2]

Matches(t, i, sel) ==
    /\ IsElement(t, i)
    /\ CASE sel.kind = "class" -> HasClass(t[i], sel.a)
         [] sel.kind = "tag" -> t[i].tag = sel.a
         [] sel.kind = "adjacent" ->
                /\ HasClass(t[i], sel.b)
                /\ PrevElementSibling(t, i) # 0
                /\ t[PrevElementSibling(t, i)].id = sel.a
         [] sel.kind = "inside" ->
                /\ HasClass(t[i], sel.b)
                /\ \E a \in Ancestors(t, i) : HasClass(t[a], sel.a)
         [] OTHER -> FALSE
Find(t, sel) == {i \in Live(t) : Matches(t, i, sel)}

\* ------------------------------------------------------------------------
\* Parser options (constructor)
\* ------------------------------------------------------------------------

\* JavaScript null / undefined where an object or an array is expected.
Null == [null |-> TRUE]
\* A JavaScript array.
Arr(items) == [items |-> items]

BaseUrl == <<"https:", "/", "/", "zh.minecraft.wiki">>

DefaultRemoveSelectors ==
    << Cls("mw-editsection"), Cls("navbox"), Cls("metadata"), Cls("stub"),
       Cls("ambox"), Cls("hatnote"), Cls("mw-jump-link"), Cls("printfooter"),
       Cls("catlinks"), Adjacent("toc", "mw-empty-elt"), Tag("script"),
       Tag("style"), Inside("reference", "mw-reflink-text"),
       Cls("mw-cite-backlink") >>

DefaultPreserveSelectors ==
    << ".infobox", ".thumbinner", ".gallery", "#toc", ".wikitable", ".mw-highlight" >>

DefaultImageOptions ==
    [convertToAbsolute |-> TRUE, removeSmallImages |-> TRUE,
     minWidth |-> 50, minHeight |-> 50]

DefaultLinkOptions ==
    [convertInternalLinks |-> TRUE, preserveExternalLinks |-> TRUE,
     baseUrl |-> BaseUrl]

DefaultOptions ==
    [contentSelector |-> "#mw-content-text .mw-parser-output",
     removeSelectors |-> Arr(DefaultRemoveSelectors),
     preserveSelectors |-> Arr(DefaultPreserveSelectors),
     imageOptions |-> DefaultImageOptions,
     linkOptions |-> DefaultLinkOptions]

OptionKeys == DOMAIN DefaultOptions

\* A merge that descends into option groups and replaces them field by field.
MergeDeep(base, overrides) ==
    [k \in DOMAIN base \cup DOMAIN overrides |->
        IF k \notin DOMAIN overrides THEN base[k]
        ELSE IF k \notin DOMAIN base THEN overrides[k]
        ELSE IF k \in {"imageOptions", "linkOptions"}
                /\ overrides[k] # [null |-> TRUE] /\ base[k] # [null |-> TRUE]
        THEN [f \in DOMAIN base[k] \cup DOMAIN overrides[k] |->
                IF f \in DOMAIN overrides[k] THEN overrides[k][f] ELSE base[k][f]]
        ELSE overrides[k]]

\* { ...base, ...overrides }: every key of overrides replaces base's value.
Merge(base, overrides) ==
    [k \in DOMAIN base \cup DOMAIN overrides |->
        IF k \in DOMAIN overrides THEN overrides[k] ELSE base[k]]

\* new PageContentParser(options)
Construct(overrides) == Merge(DefaultOptions, overrides)

\* ------------------------------------------------------------------------
\* Stages working on the document
\* ------------------------------------------------------------------------

Indicators == {"#mw-content-text", ".mw-parser-output", "#firstHeading", "#mw-head"}

\* A validator that asks for every marker instead of any.
IsValidWikiPageAll(doc) == \A selector \in Indicators : selector \in doc.matches

\* _isValidWikiPage
IsValidWikiPage(doc) == \E selector \in Indicators : selector \in doc.matches

FallbackSelectors == << "#mw-content-text", ".mw-body-content", "#content .mw-content-ltr" >>

\* A locator that keeps the last fallback selector that matches.
ExtractMainContentLast(doc, o) ==
    IF o.contentSelector \in doc.matches THEN o.contentSelector
    ELSE LET hit == {k \in 1..Len(FallbackSelectors) : FallbackSelectors[k] \in doc.matches}
         IN IF hit = {} THEN "" ELSE FallbackSelectors[SetMax(hit)]

\* _extractMainContent: the selector whose match is returned, "" when the
\* returned selection is empty.
ExtractMainContent(doc, o) ==
    IF o.contentSelector \in doc.matches THEN o.contentSelector
    ELSE LET hit == {k \in 1..Len(FallbackSelectors) : FallbackSelectors[k] \in doc.matches}
         IN IF hit = {} THEN "" ELSE FallbackSelectors[SetMin(hit)]

\* _normalizeUrl
NormalizeUrl(url, o) ==
    IF url = <<>> THEN <<>>
    ELSE IF StartsWith(url, "https:") THEN url
    ELSE IF StartsWith(url, "/") THEN o.linkOptions.baseUrl \o url
    ELSE url

\* _extractLastModified: the date the footer text holds, Null without one.
ExtractLastModified(doc) ==
    IF doc.lastmod = "dated" THEN [date |-> "2024-01-01"] ELSE Null

\* The TypeError _extractBasicInfo raises, "" when it raises none: reading
\* pageInfo.title / pageInfo.namespace of a null hint, or linkOptions.baseUrl
\* of a missing option group for a root-relative category link.
BasicInfoFault(doc, info, o) ==
    IF doc.heading = "" /\ info = Null
    THEN "Cannot read properties of null (reading 'title')"
    ELSE IF /\ o.linkOptions = Null
            /\ \E k \in 1..Len(doc.categories) :
                /\ doc.categories[k].name # ""
                /\ ~StartsWith(doc.categories[k].url, "https:")
                /\ StartsWith(doc.categories[k].url, "/")
    THEN "Cannot read properties of null (reading 'baseUrl')"
    ELSE IF info = Null
    THEN "Cannot read properties of null (reading 'namespace')"
    ELSE ""

RECURSIVE SeqOf(_)
SeqOf(S) == IF S = {} THEN <<>> ELSE <<SetMin(S)>> \o SeqOf(S \ {SetMin(S)})

\* _extractBasicInfo
ExtractBasicInfo(doc, info, o) ==
    LET cats == SeqOf({k \in 1..Len(doc.categories) : doc.categories[k].name # ""})
        langs == SeqOf({k \in 1..Len(doc.languages) :
                          doc.languages[k].name # "" /\ doc.languages[k].url # <<>>})
    IN [title |-> IF doc.heading # "" THEN doc.heading ELSE info.title,
        subtitle |-> doc.contentSub,
        categories |-> [k \in 1..Len(cats) |->
                          [name |-> doc.categories[cats[k]].name,
                           url |-> NormalizeUrl(doc.categories[cats[k]].url, o)]],
        languages |-> [k \in 1..Len(langs) |-> doc.languages[langs[k]]],
        namespace |-> info.namespace,
        lastModified |-> ExtractLastModified(doc)]

\* ------------------------------------------------------------------------
\* Stages working on the content subtree
\* ------------------------------------------------------------------------

\* removeSelectors.forEach(selector => $content.find(selector).remove())
RECURSIVE RemoveEach(_, _, _)
RemoveEach(t, sels, k) ==
    IF k > Len(sels) THEN t
    ELSE RemoveEach(Remove(t, Find(t, sels[k])), sels, k + 1)

\* An empty-element pass that names only 'p:empty'.
EmptyParagraphs(t) == {i \in Live(t) : t[i].tag = "p" /\ Children(t, i) = {}}

\* 'p:empty, div:empty, span:empty'
EmptyElements(t) ==
    {i \in Live(t) : t[i].tag \in {"p", "div", "span"} /\ Children(t, i) = {}}

\* The blank-line pass of _cleanContent on the serialized subtree.
CollapseTree(t) ==
    LET r == Reparse(t)
    IN [i \in Nodes(r) |->
          IF IsText(r, i) THEN [r[i] EXCEPT !.text = CollapseBlankLines(@)] ELSE r[i]]

\* _cleanContent
CleanContent(t, o) ==
    LET t1 == RemoveEach(t, o.removeSelectors.items, 1)
        t2 == Remove(t1, EmptyElements(t1))
    IN CollapseTree(t2)

\* .closest(S): the nearest of the node and its ancestors that is in S.
Closest(t, i, S) ==
    LET c == (Ancestors(t, i) \cup {i}) \cap S
    IN IF c = {} THEN 0 ELSE SetMax(c)

ThumbContainers(t) ==
    {j \in Live(t) : IsElement(t, j) /\
        (HasClass(t[j], "thumb") \/ HasClass(t[j], "thumbinner") \/ t[j].tag = "figure")}

\* .find(sel).text() below node c: the texts of the matched elements, in order.
RECURSIVE TextsOf(_, _)
TextsOf(t, idx) == IF idx = <<>> THEN <<>> ELSE TextOf(t, Head(idx)) \o TextsOf(t, Tail(idx))

\* $img.closest('.thumbinner').find('.thumbcaption').text().trim()
Caption(t, i) ==
    LET c == Closest(t, i, {j \in Live(t) : HasClass(t[j], "thumbinner")})
    IN IF c = 0 THEN <<>>
       ELSE Trim(TextsOf(t, SeqOf({j \in Descendants(t, c) : HasClass(t[j], "thumbcaption")})))

\* parseInt(attr) || 0
ParseIntOr0(v) == IF v < 0 THEN 0 ELSE v

\* A prefixing that drops the leading slash of the path.
AbsolutizeNoSlash(base, url) == base \o Tail(url)

\* baseUrl + src, baseUrl + href
Absolutize(base, url) == base \o url

IsSmall(nd, io) ==
    \/ ParseIntOr0(nd.width) > 0 /\ ParseIntOr0(nd.width) < io.minWidth
    \/ ParseIntOr0(nd.height) > 0 /\ ParseIntOr0(nd.height) < io.minHeight

\* What removing a small image removes: .closest('.thumb, .thumbinner, figure').
SmallImageTarget(t, i) ==
    LET c == Closest(t, i, ThumbContainers(t)) IN IF c = 0 THEN {} ELSE {c}

\* The body of the $('img').each callback for image i.
ImageStep(t, i, o) ==
    IF t[i].tag # "img" \/ t[i].src = <<>> THEN t
    ELSE LET io == o.imageOptions
             src == IF io.convertToAbsolute /\ StartsWith(t[i].src, "/")
                    THEN Absolutize(o.linkOptions.baseUrl, t[i].src) ELSE t[i].src
             t1 == [t EXCEPT ![i].src = src]
         IN IF io.removeSmallImages /\ IsSmall(t1[i], io)
            THEN Remove(t1, SmallImageTarget(t1, i))
            ELSE IF t1[i].alt = <<>> /\ Caption(t1, i) # <<>>
            THEN [t1 EXCEPT ![i].alt = Caption(t1, i)]
            ELSE t1

RECURSIVE EachImage(_, _, _)
EachImage(t, i, o) == IF i > Len(t) THEN t ELSE EachImage(ImageStep(t, i, o), i + 1, o)

\* The TypeError _processImages raises, "" when it raises none.
ImagesFault(t, o) ==
    IF o.imageOptions = Null
    THEN IF \E i \in Live(t) : t[i].tag = "img" /\ t[i].src # <<>>
         THEN "Cannot read properties of null (reading 'convertToAbsolute')" ELSE ""
    ELSE IF /\ o.linkOptions = Null /\ o.imageOptions.convertToAbsolute
            /\ \E i \in Live(t) : t[i].tag = "img" /\ StartsWith(t[i].src, "/")
    THEN "Cannot read properties of null (reading 'baseUrl')"
    ELSE ""

\* _processImages
ProcessImages(t, o) == Reparse(EachImage(t, 1, o))

\* A string handed to cheerio as content is parsed as markup.  A text token
\* "<br>" stands for the characters of a tag (serialized &lt;br&gt;); a text
\* node of the model holds plain characters or one such token.  Parsing
\* gives a text node for every maximal run of plain tokens and an element
\* for every tag.
RECURSIVE ParseHtml(_)
ParseHtml(s) ==
    IF s = <<>> THEN <<>>
    ELSE IF Head(s) = "<br>" THEN <<Elem("br", "", <<>>)>> \o ParseHtml(Tail(s))
    ELSE LET rest == ParseHtml(Tail(s))
         IN IF rest # <<>> /\ Head(rest).tag = "#text"
            THEN <<TextNode(<<Head(s)>> \o Head(rest).text)>> \o Tail(rest)
            ELSE <<TextNode(<<Head(s)>>)>> \o rest

\* $link.replaceWith($link.text()): the parsed nodes take the place of the
\* anchor and its subtree, as children of the anchor's parent.
Unwrap(t, i) ==
    LET new == ParseHtml(TextOf(t, i))
        slots == {i} \cup Descendants(t, i)
    IN [j \in Nodes(t) |->
          IF j \in slots
          THEN LET k == Cardinality({m \in slots : m <= j})
               IN IF k <= Len(new) THEN [new[k] EXCEPT !.parent = t[i].parent]
                  ELSE Detached
          ELSE t[j]]

\* The anchors the each callback of _processLinks acts on: $('a[href]')
\* whose href is not empty.
LinkCandidates(t) == {i \in Live(t) : t[i].tag = "a" /\ t[i].href # <<>>}

IsDeadLink(nd) ==
    \/ Includes(nd.href, "action=edit")
    \/ Includes(nd.href, "redlink=1")
    \/ HasClass(nd, "mw-selflink")

\* The body of the $('a[href]').each callback for anchor i.
LinkStep(t, i, o) ==
    IF i \notin LinkCandidates(t) THEN t
    ELSE LET lo == o.linkOptions
             href == IF lo.convertInternalLinks /\ StartsWith(t[i].href, "/")
                     THEN Absolutize(lo.baseUrl, t[i].href) ELSE t[i].href
             t1 == [t EXCEPT ![i].href = href]
         IN IF IsDeadLink(t1[i]) THEN Unwrap(t1, i) ELSE t1

RECURSIVE EachLink(_, _, _)
EachLink(t, i, o) == IF i > Len(t) THEN t ELSE EachLink(LinkStep(t, i, o), i + 1, o)

\* The TypeError _processLinks raises, "" when it raises none.
LinksFault(t, o) ==
    IF o.linkOptions = Null /\ LinkCandidates(t) # {}
    THEN "Cannot read properties of null (reading 'convertInternalLinks')" ELSE ""

\* _processLinks
ProcessLinks(t, o) == Reparse(EachLink(t, 1, o))

InsideTable(t, i) == \E a \in Ancestors(t, i) : t[a].tag = "table"

\* $table.find('*').removeAttr('style')
StripDescendant(nd) == [nd EXCEPT !.attrs = @ \ {"style"}]

\* A table callback that adds the class without looking for it first.
StripTableAlwaysAdds(nd) ==
    [nd EXCEPT !.cls = Append(@, "wikitable"), !.attrs = @ \ PresentationAttrs]

\* The body of the $('table').each callback on the table element itself.
StripTable(nd) ==
    [nd EXCEPT !.cls = IF HasClass(nd, "wikitable") THEN @ ELSE Append(@, "wikitable"),
               !.attrs = @ \ PresentationAttrs]

\* _processTables
ProcessTables(t) ==
    Reparse([i \in Nodes(t) |->
        LET nd == IF i \in Live(t) /\ InsideTable(t, i) THEN StripDescendant(t[i]) ELSE t[i]
        IN IF i \in Live(t) /\ nd.tag = "table" THEN StripTable(nd) ELSE nd])

\* ------------------------------------------------------------------------
\* Component extraction, text and metadata
\* ------------------------------------------------------------------------

\* parseInt(tagName.substring(1)) of a heading element, 0 for any other tag.
HeadingLevel(tag) ==
    CASE tag = "h1" -> 1 [] tag = "h2" -> 2 [] tag = "h3" -> 3
      [] tag = "h4" -> 4 [] tag = "h5" -> 5 [] tag = "h6" -> 6 [] OTHER -> 0

SectionOf(t, i) ==
    [level |-> HeadingLevel(t[i].tag), text |-> Trim(TextOf(t, i)), id |-> t[i].id,
     anchor |-> IF t[i].id # "" THEN <<"#", t[i].id>> ELSE <<>>]

\* node is a ghost field, the image's position in the subtree; the returned
\* object has the other five.
ImageRefOf(t, i) ==
    [node |-> i, src |-> t[i].src, alt |-> t[i].alt, caption |-> Caption(t, i),
     width |-> t[i].width, height |-> t[i].height]

TableSummaryOf(t, i) ==
    LET rows == {j \in Descendants(t, i) : t[j].tag = "tr"}
        cells == IF rows = {} THEN {}
                 ELSE {j \in Descendants(t, SetMin(rows)) : t[j].tag \in {"th", "td"}}
    IN [caption |-> Trim(TextsOf(t, SeqOf({j \in Descendants(t, i) : t[j].tag = "caption"}))),
        rowCount |-> Cardinality(rows),
        colCount |-> Cardinality(cells),
        hasHeader |-> \E j \in Descendants(t, i) : t[j].tag = "th"]

\* Class names that contain the substring 'infobox'.
InfoboxNames == {"infobox", "infobox-title", "notaninfobox"}

InfoboxOf(t, i) ==
    LET titles == {j \in Descendants(t, i) :
                     HasClass(t[j], "infobox-title") \/ HasClass(t[j], "fn")}
        named == {k \in 1..Len(t[i].cls) : t[i].cls[k] \in InfoboxNames}
    IN [title |-> IF titles = {} THEN <<>> ELSE Trim(TextOf(t, SetMin(titles))),
        type |-> IF named = {} THEN "infobox" ELSE t[i].cls[SetMin(named)],
        hasImage |-> \E j \in Descendants(t, i) : t[j].tag = "img"]

\* $('#toc, .toc')
TocContainers(t) ==
    {i \in Live(t) : IsElement(t, i) /\ (t[i].id = "toc" \/ HasClass(t[i], "toc"))}

TocOf(t) ==
    IF TocContainers(t) = {} THEN Null
    ELSE LET links == {j \in Live(t) :
                         /\ t[j].tag = "a"
                         /\ Ancestors(t, j) \cap TocContainers(t) # {}
                         /\ Trim(TextOf(t, j)) # <<>>
                         /\ t[j].href # <<>>}
             idx == SeqOf(links)
         IN [items |-> [k \in 1..Len(idx) |->
                          [text |-> Trim(TextOf(t, idx[k])), href |-> t[idx[k]].href]]]

MapSeq(t, S, F(_, _)) == LET idx == SeqOf(S) IN [k \in 1..Len(idx) |-> F(t, idx[k])]

\* _extractContentComponents
ExtractContentComponents(t) ==
    [sections |-> MapSeq(t, {i \in Live(t) : HeadingLevel(t[i].tag) > 0
                                             /\ Trim(TextOf(t, i)) # <<>>}, SectionOf),
     images |-> MapSeq(t, {i \in Live(t) : t[i].tag = "img" /\ t[i].src # <<>>}, ImageRefOf),
     tables |-> MapSeq(t, {i \in Live(t) : t[i].tag = "table"}, TableSummaryOf),
     infoboxes |-> MapSeq(t, {i \in Live(t) : HasClass(t[i], "infobox")}, InfoboxOf),
     toc |-> TocOf(t)]

\* text.replace(/\s+/g, ' ')
RECURSIVE SquashWs(_, _)
SquashWs(s, i) ==
    IF i > Len(s) THEN <<>>
    ELSE IF IsWs(s[i]) THEN <<"s">> \o SquashWs(s, WsEnd(s, i) + 1)
    ELSE <<s[i]>> \o SquashWs(s, i + 1)

\* _extractTextContent
ExtractTextContent(t) ==
    LET u == Remove(t, {i \in Live(t) :
                \/ t[i].tag \in {"script", "style"}
                \/ HasClass(t[i], "infobox") \/ t[i].id = "toc" \/ HasClass(t[i], "navbox")})
    IN CollapseBlankLines(Trim(SquashWs(TextFrom(u, Live(u), 1), 1)))

\* _countWords: "c" is a CJK ideograph, "x" a Latin letter.
CountWords(text) ==
    Cardinality({i \in 1..Len(text) : text[i] = "c"})
    + Cardinality({i \in 1..Len(text) : text[i] = "x" /\ (i = 1 \/ text[i - 1] # "x")})

\* $content.html(): the subtree as its serialization holds it.
Html(t) == Reparse(t)

\* ------------------------------------------------------------------------
\* parsePageContent: results
\* ------------------------------------------------------------------------

\* A summary that reports the number of images as the number of tables.
MetaOfImagesTwice(text, c) ==
    [wordCount |-> CountWords(text),
     imageCount |-> Len(c.images),
     tableCount |-> Len(c.images),
     sectionCount |-> Len(c.sections),
     processingTime |-> "Date.now()"]

\* const meta = { wordCount, imageCount, tableCount, sectionCount, processingTime }
MetaOf(text, c) ==
    [wordCount |-> CountWords(text),
     imageCount |-> Len(c.images),
     tableCount |-> Len(c.tables),
     sectionCount |-> Len(c.sections),
     processingTime |-> "Date.now()"]

\* The value of the return statement of the try block.
Success(info, t, text, c) ==
    [success |-> TRUE,
     data |-> Merge(info, [content |-> [html |-> Html(t), text |-> text, components |-> c],
                           meta |-> MetaOf(text, c)])]

\* An Error object.  The three messages parsePageContent throws itself are
\* Chinese in the source; the model carries their English wording.
Error(message) == [message |-> message]

\* A catch block that logs and throws the error on to the caller.
CatchRethrows(error) == [outcome |-> "thrown", result |-> Null]

\* A catch block that hands back the error together with an empty document.
CatchWithDocument(error) ==
    [outcome |-> "returned",
     result |-> [success |-> FALSE,
                 error |-> [code |-> "PARSE_ERROR", message |-> error.message,
                            details |-> Null],
                 data |-> [content |-> Null, meta |-> Null]]]

\* The catch block: what the call ends with once error was thrown inside try.
Catch(error) ==
    [outcome |-> "returned",
     result |-> [success |-> FALSE,
                 error |-> [code |-> "PARSE_ERROR", message |-> error.message,
                            details |-> Null],
                 data |-> Null]]

\* ------------------------------------------------------------------------
\* Inputs: content subtrees as the HTML parser builds them
\* ------------------------------------------------------------------------

\* Tags whose start tag closes an open <p>.
BlockTags == {"div", "p", "table", "figure", "ul", "h2", "h3"}
TableParts == {"caption", "tbody", "tr", "td", "th"}
LeafTags == {"#text", "img", "script", "style"}

\* Whether the parser leaves an element of tag c as a child of an element of
\* tag p ("" is the content container), given the tags of p's ancestors.
CanNest(p, up, c) ==
    /\ p \notin LeafTags
    /\ (p = "p") => (c \notin BlockTags)
    /\ (c = "a") => (p # "a" /\ "a" \notin up)
    /\ (p = "table") <=> (c \in {"caption", "tbody"})
    /\ (p = "tbody") <=> (c = "tr")
    /\ (p = "tr") <=> (c \in {"td", "th"})

LastChild(t, p) ==
    LET S == {j \in Nodes(t) : t[j].parent = p} IN IF S = {} THEN 0 ELSE SetMax(S)

\* The positions a next node in document order can hang from.
OpenNodes(t) == IF t = <<>> THEN {0} ELSE {0, Len(t)} \cup Ancestors(t, Len(t))

CanAppend(t, p, nd) ==
    /\ CanNest(IF p = 0 THEN "" ELSE t[p].tag,
               IF p = 0 THEN {} ELSE {t[a].tag : a \in Ancestors(t, p)}, nd.tag)
    /\ (nd.tag = "#text") =>
            \A j \in Nodes(t) : (j = LastChild(t, p)) => (t[j].tag # "#text")

RelSrc == <<"/", "images", "a.png">>
AbsSrc == <<"https:", "/", "/", "cdn", "a.png">>
ProtoRelSrc == <<"/", "/", "cdn", "a.png">>
PageHref == <<"/", "w", "Diamond">>
EditHref == <<"/", "w", "Diamond", "?", "action=edit">>
RedHref == <<"/", "w", "Emerald", "?", "redlink=1">>
ExtHref == <<"https:", "/", "/", "example.org">>
FragHref == <<"#", "Uses">>

CleanTags ==
    {Elem("div", "", <<>>), Elem("p", "", <<>>), Elem("span", "", <<"mw-editsection">>),
     Elem("script", "", <<>>), Elem("div", "toc", <<>>),
     Elem("span", "", <<"mw-empty-elt">>)}
CleanTexts ==
    {Elem("div", "", <<>>), Elem("span", "", <<"navbox">>),
     TextNode(<<"x">>), TextNode(<<"n", "n">>), TextNode(<<"n", "s", "n", "n", "s">>)}
ImageBoxes ==
    {Elem("div", "", <<"thumb">>), Elem("div", "", <<"thumbinner">>),
     Elem("figure", "", <<>>), Img(RelSrc, 10, 10), Img(RelSrc, 100, 100)}
ImageSources ==
    {Elem("div", "", <<"thumbinner">>), Img(AbsSrc, -1, -1), Img(ProtoRelSrc, 100, 10),
     Img(<<>>, 10, 10), Img(<<"a.png">>, 0, 0)}
LinkNodes ==
    {Anchor(PageHref, <<>>), Anchor(EditHref, <<>>), Anchor(RedHref, <<"new">>),
     Anchor(PageHref, <<"mw-selflink">>), Anchor(<<>>, <<"mw-selflink", "selflink">>),
     Anchor(ExtHref, <<"external">>), TextNode(<<"x">>), TextNode(<<"<br>">>)}
TableNodes ==
    {WithAttrs(Elem("table", "", <<>>), {"style", "border", "cellpadding", "cellspacing"}),
     Elem("table", "", <<"wikitable">>),
     Elem("table", "", <<"wikitable", "wikitable">>),
     WithAttrs(Elem("caption", "", <<>>), {"style", "border"}),
     WithAttrs(Elem("tbody", "", <<>>), {"cellpadding"}),
     WithAttrs(Elem("div", "", <<>>), {"style"})}
\* A table of contents with an entry, and what can follow it.
TocSeed == << Elem("div", "toc", <<>>), [TextNode(<<"x">>) EXCEPT !.parent = 1] >>
AfterToc ==
    {Elem("script", "", <<>>), Elem("span", "", <<"mw-empty-elt">>), TextNode(<<"x">>)}
TocNodes ==
    {Elem("div", "toc", <<>>), Elem("ul", "", <<"toc">>), Anchor(FragHref, <<>>),
     Anchor(<<>>, <<>>), Anchor(EditHref, <<>>), TextNode(<<"x">>)}

\* A table with a header row of two cells, and what can follow in it: more
\* rows and cells, and a table inside a cell.
HeaderRowSeed ==
    << Elem("table", "", <<>>),
       [Elem("tbody", "", <<>>) EXCEPT !.parent = 1],
       [Elem("tr", "", <<>>) EXCEPT !.parent = 2],
       [Elem("th", "", <<>>) EXCEPT !.parent = 3],
       [Elem("th", "", <<>>) EXCEPT !.parent = 3] >>
RowNodes ==
    {Elem("tr", "", <<>>), Elem("td", "", <<>>), Elem("table", "", <<>>),
     Elem("tbody", "", <<>>)}

\* Headed text with images and tables.
SectionNodes ==
    {Elem("h2", "Uses", <<>>), TextNode(<<"x">>), Img(AbsSrc, 100, 100),
     Elem("table", "", <<>>)}

\* ------------------------------------------------------------------------
\* Inputs: documents, hints, configurations
\* ------------------------------------------------------------------------

Undefined == [undefined |-> TRUE]
\* An options argument that names no key.
NoOverrides == [k \in {} |-> Null]
EmptyObject == [title |-> "", namespace |-> ""]

DocSelectors ==
    Indicators \cup {"#mw-content-text .mw-parser-output", ".mw-body-content",
                     "#content .mw-content-ltr", ".custom"}

\* Sets of document selectors one document can match together.
MatchSets ==
    {m \in SUBSET DocSelectors :
        ("#mw-content-text .mw-parser-output" \in m)
            => ("#mw-content-text" \in m /\ ".mw-parser-output" \in m)}

StandardMatches ==
    {"#mw-content-text", ".mw-parser-output", "#mw-content-text .mw-parser-output",
     "#firstHeading", "#mw-head", ".mw-body-content"}

Category == [name |-> "Items", url |-> <<"/", "w", "Category:Items">>]
Language == [name |-> "English", code |-> "en", url |-> <<"https:", "/", "/", "minecraft.wiki">>]

Page(matches, heading, categories, tree) ==
    [kind |-> "string",
     doc |-> [matches |-> matches, heading |-> heading, contentSub |-> "",
              categories |-> categories, languages |-> <<Language>>,
              lastmod |-> IF categories = <<>> THEN "" ELSE "dated",
              tree |-> tree]]
StandardPage(tree) == Page(StandardMatches, "Diamond", <<Category>>, tree)

\* A markup argument that is no non-empty string.
NoPage(kind) == Merge(Page({}, "", <<>>, <<>>), [kind |-> kind])
NonStrings == {NoPage(k) : k \in {"null", "undefined", "number", "empty string"}}

Hints == {Undefined, Null, [title |-> "Hint", namespace |-> "Main"]}

\* Configurations that switch one normalization off.
KeepSmallImages ==
    [imageOptions |-> [DefaultImageOptions EXCEPT !.removeSmallImages = FALSE]]
KeepImageSources ==
    [imageOptions |-> [DefaultImageOptions EXCEPT !.convertToAbsolute = FALSE]]
KeepInternalLinks ==
    [linkOptions |-> [DefaultLinkOptions EXCEPT !.convertInternalLinks = FALSE]]
Overrides ==
    { NoOverrides,
      [imageOptions |-> Null],
      [linkOptions |-> Null],
      [removeSelectors |-> Null],
      [contentSelector |-> ".custom"],
      KeepImageSources,
      KeepSmallImages,
      KeepInternalLinks,
      [removeSelectors |-> Arr(<<Tag("script")>>)] }

SmallTrees ==
    { <<>>, <<TextNode(<<"x">>)>>, <<Img(RelSrc, 100, 100)>>, <<Img(AbsSrc, 100, 100)>>,
      <<Anchor(PageHref, <<>>), [TextNode(<<"x">>) EXCEPT !.parent = 1]>> }

PlainLinks ==
    {Anchor(PageHref, <<>>), Anchor(EditHref, <<>>), Anchor(ExtHref, <<"external">>),
     TextNode(<<"x">>)}

\* ------------------------------------------------------------------------
\* parsePageContent as a state machine
\* ------------------------------------------------------------------------

VARIABLES
    options,     \* this.options of the parser instance
    html,        \* the markup argument
    pageInfo,    \* the page hint argument
    pc,          \* how far the call has come
    basicInfo,   \* local basicInfo, Null before it is assigned
    located,     \* the selector whose match _extractMainContent returned
    before,      \* the content subtree as the stage that ran last found it
    content,     \* local $content
    components,  \* local components, Null before it is assigned
    result,      \* the returned value, Null while the call runs
    outcome      \* "running", "returned", or "thrown" to the caller

\* The parser instance between calls.
VARIABLES
    applied      \* the option objects given to the constructor and to
                 \* updateOptions so far, oldest first

\* The port manager and the server process.
VARIABLES
    held,        \* the ports other processes are bound to
    envMoves,    \* how often other processes bound or released a port
    entry,       \* the function that was called
    args,        \* its arguments
    proc,        \* where the called function stands
    probe,       \* the probe server of the isPortAvailable call in progress
    attempt,     \* local i of findAvailablePort
    probes,      \* the probes made so far, with what each resolved to
    settled,     \* how the promise of the called function settled
    server,      \* the server app.listen made
    conns,       \* connections the server has open
    exitCode,    \* the argument of process.exit, -1 while the process runs
    now,         \* Date.now()
    startTime    \* local startTime of waitForPort

\* The configuration module.
VARIABLES
    env,         \* process.env
    config,      \* the exported config object
    loaded       \* how far the module has loaded

parserVars == <<options, html, pageInfo, pc, basicInfo, located, before, content,
                components, result, outcome>>
portVars == <<held, envMoves, entry, args, proc, probe, attempt, probes, settled,
              server, conns, exitCode, now, startTime>>
configVars == <<env, config, loaded>>
vars == <<parserVars, applied, portVars, configVars>>

\* No isPortAvailable call in progress, and no server made.
NoProbe == [port |-> 0, st |-> "none", resolved |-> FALSE, value |-> FALSE, at |-> 0]
NoServer == [port |-> 0, st |-> "none", callbacks |-> <<>>]
Pending == [state |-> "pending"]

\* The components a specification leaves out, at rest.
ParserIdle ==
    /\ html = Null /\ pageInfo = Null /\ pc = "Idle" /\ basicInfo = Null /\ located = ""
    /\ before = <<>> /\ content = <<>> /\ components = Null /\ result = Null
    /\ outcome = "idle"
PortsIdle ==
    /\ held = {} /\ envMoves = 0 /\ entry = "none" /\ args = Null /\ proc = "idle"
    /\ probe = NoProbe /\ attempt = 0 /\ probes = <<>> /\ settled = Pending
    /\ server = NoServer /\ conns = 0 /\ exitCode = -1 /\ now = 0 /\ startTime = 0
ConfigIdle == env = Null /\ config = Null /\ loaded = "idle"

\* The state in which parsePageContent(h, i) is entered on a parser built
\* with new PageContentParser(o).
Enter(h, i, o) ==
    /\ options = Construct(o)
    /\ html = h
    /\ pageInfo = i
    /\ pc = "Start"
    /\ basicInfo = Null
    /\ located = ""
    /\ before = <<>>
    /\ content = <<>>
    /\ components = Null
    /\ result = Null
    /\ outcome = "running"
    /\ applied = <<o>>
    /\ PortsIdle
    /\ ConfigIdle

\* Calls on a standard page whose content is t or t with up to n more nodes
\* of palette, in the places the HTML parser can put them.
RECURSIVE EnterTree(_, _, _, _)
EnterTree(palette, overrides, t, n) ==
    \/ \E o \in overrides : Enter(StandardPage(t), Undefined, o)
    \/ /\ n > 0
       /\ \E nd \in palette : \E p \in OpenNodes(t) :
            /\ CanAppend(t, p, nd)
            /\ \E u \in {Append(t, [nd EXCEPT !.parent = p])} :
                    EnterTree(palette, overrides, u, n - 1)

\* Calls that exercise input checking, validation and locating.
GateCalls ==
    \/ \E h \in NonStrings : \E i \in Hints : Enter(h, i, NoOverrides)
    \/ \E m \in MatchSets : \E o \in {NoOverrides, [contentSelector |-> ".custom"]} :
            Enter(Page(m, "", <<>>, <<TextNode(<<"x">>)>>), Undefined, o)

\* Calls that exercise the faults of every stage.
FaultCalls ==
    \E h \in {"", "Diamond"} : \E c \in {<<>>, <<Category>>} : \E t \in SmallTrees :
        \E i \in Hints : \E o \in Overrides :
            Enter(Page(StandardMatches, h, c, t), i, o)

Init ==
    \/ GateCalls
    \/ FaultCalls
    \/ EnterTree(CleanTags, {NoOverrides}, <<>>, MaxNodes)
    \/ EnterTree(CleanTexts, {NoOverrides}, <<>>, MaxNodes)
    \/ EnterTree(AfterToc, {NoOverrides}, TocSeed, MaxNodes)
    \/ EnterTree(ImageBoxes, {NoOverrides, KeepSmallImages}, <<>>, MaxNodes)
    \/ EnterTree(ImageSources, {NoOverrides, KeepImageSources}, <<>>, MaxNodes)
    \/ EnterTree(LinkNodes, {NoOverrides}, <<>>, MaxNodes)
    \/ EnterTree(PlainLinks, {KeepInternalLinks}, <<>>, MaxNodes)
    \/ EnterTree(TableNodes, {NoOverrides}, <<>>, MaxNodes)
    \/ EnterTree(TocNodes, {NoOverrides}, <<>>, MaxNodes)
    \/ EnterTree(SectionNodes, {NoOverrides}, <<>>, MaxNodes)
    \/ EnterTree(RowNodes, {NoOverrides}, HeaderRowSeed, MaxNodes)

\* The default parameter pageInfo = {}.
HintOf(info) == IF info = Undefined THEN EmptyObject ELSE info

\* throw inside the try block: control passes to the catch block.
Throw(error) ==
    /\ pc' = "Failed"
    /\ result' = Catch(error).result
    /\ outcome' = Catch(error).outcome
    /\ UNCHANGED <<options, html, pageInfo, basicInfo, located, before, content, components>>
    /\ UNCHANGED <<applied, portVars, configVars>>

\* A stage that ends normally at position next with the subtree t, where
\* place names what $content was taken from.
Proceed(next, t, place) ==
    /\ pc' = next
    /\ before' = content
    /\ content' = t
    /\ located' = place
    /\ UNCHANGED <<options, html, pageInfo, basicInfo, components, result, outcome>>
    /\ UNCHANGED <<applied, portVars, configVars>>

\* A stage that ends normally at position next with the subtree t.
Advance(next, t) == Proceed(next, t, located)

\* if (!html || typeof html !== 'string') throw ...; cheerio.load(html)
CheckInput ==
    /\ pc = "Start"
    /\ IF html.kind # "string"
       THEN Throw(Error("HTML content must be a non-empty string"))
       ELSE Advance("Validated", content)

\* if (!this._isValidWikiPage($)) throw ...
Validate ==
    /\ pc = "Validated"
    /\ IF ~IsValidWikiPage(html.doc)
       THEN Throw(Error("not a valid wiki page HTML"))
       ELSE Advance("WikiPage", content)

\* const basicInfo = this._extractBasicInfo($, pageInfo)
BasicInfo ==
    /\ pc = "WikiPage"
    /\ IF BasicInfoFault(html.doc, HintOf(pageInfo), options) # ""
       THEN Throw(Error(BasicInfoFault(html.doc, HintOf(pageInfo), options)))
       ELSE /\ pc' = "InfoDone"
            /\ basicInfo' = ExtractBasicInfo(html.doc, HintOf(pageInfo), options)
            /\ UNCHANGED <<options, html, pageInfo, located, before, content,
                           components, result, outcome>>
            /\ UNCHANGED <<applied, portVars, configVars>>

\* const $content = this._extractMainContent($)
Locate ==
    /\ pc = "InfoDone"
    /\ Proceed("Located",
               IF ExtractMainContent(html.doc, options) = "" THEN <<>> ELSE html.doc.tree,
               ExtractMainContent(html.doc, options))

\* if ($content.length === 0) throw ...
CheckContent ==
    /\ pc = "Located"
    /\ IF located = ""
       THEN Throw(Error("main content area not found"))
       ELSE Advance("Content", content)

\* this._cleanContent($content)
Clean ==
    /\ pc = "Content"
    /\ IF options.removeSelectors = Null
       THEN Throw(Error("Cannot read properties of null (reading 'forEach')"))
       ELSE Advance("Cleaned", CleanContent(content, options))

\* this._processImages($content)
Images ==
    /\ pc = "Cleaned"
    /\ IF ImagesFault(content, options) # ""
       THEN Throw(Error(ImagesFault(content, options)))
       ELSE Advance("ImagesDone", ProcessImages(content, options))

\* this._processLinks($content)
Links ==
    /\ pc = "ImagesDone"
    /\ IF LinksFault(content, options) # ""
       THEN Throw(Error(LinksFault(content, options)))
       ELSE Advance("LinksDone", ProcessLinks(content, options))

\* this._processTables($content)
Tables ==
    /\ pc = "LinksDone"
    /\ Advance("Normalized", ProcessTables(content))

\* A component extraction that raises a fault of its own.
ExtractFaulty ==
    /\ pc = "Normalized"
    /\ Throw(Error("Cannot read properties of undefined (reading 'length')"))

\* const components = this._extractContentComponents($content)
Extract ==
    /\ pc = "Normalized"
    /\ pc' = "Extracted"
    /\ components' = ExtractContentComponents(content)
    /\ UNCHANGED <<options, html, pageInfo, basicInfo, located, before, content, result,
                   outcome>>
    /\ UNCHANGED <<applied, portVars, configVars>>

\* cleanHtml, textContent and the return statement
Return ==
    /\ pc = "Extracted"
    /\ pc' = "Done"
    /\ result' = Success(basicInfo, content, ExtractTextContent(content), components)
    /\ outcome' = "returned"
    /\ UNCHANGED <<options, html, pageInfo, basicInfo, located, before, content, components>>
    /\ UNCHANGED <<applied, portVars, configVars>>

Next ==
    \/ CheckInput
    \/ Validate
    \/ BasicInfo
    \/ Locate
    \/ CheckContent
    \/ Clean
    \/ Images
    \/ Links
    \/ Tables
    \/ Extract
    \/ Return

Spec == Init /\ [][Next]_vars

\* ------------------------------------------------------------------------
\* Properties of one parsePageContent call
\* ------------------------------------------------------------------------

Terminal == {"Done", "Failed"}

\* C1: parsePageContent returns a result value for every markup argument,
\* every page hint and whichever stage raises a fault; it never throws to
\* its caller.
C1_NeverThrows ==
    /\ outcome # "thrown"
    /\ (pc \in Terminal) => (outcome = "returned" /\ "success" \in DOMAIN result)
    /\ (pc \notin Terminal) => (outcome = "running")

\* A fault of image normalization ended the call with a returned failure.
C1_Witness ==
    /\ pc = "Failed"
    /\ outcome = "returned"
    /\ result.error.message = "Cannot read properties of null (reading 'convertToAbsolute')"

DocumentKeys ==
    {"title", "subtitle", "categories", "languages", "namespace", "lastModified",
     "content", "meta"}

\* C2: every result populates exactly one variant: success with a complete
\* document and no error, or failure with an error (code and message) and
\* data null; no failure returns any partially built output of the call.
C2_OneVariant ==
    /\ (pc = "Done") =>
          /\ DOMAIN result = {"success", "data"}
          /\ result.success = TRUE
          /\ DOMAIN result.data = DocumentKeys
          /\ DOMAIN result.data.content = {"html", "text", "components"}
          /\ DOMAIN result.data.content.components =
                {"sections", "images", "tables", "infoboxes", "toc"}
          /\ DOMAIN result.data.meta =
                {"wordCount", "imageCount", "tableCount", "sectionCount", "processingTime"}
    /\ (pc = "Failed") =>
          /\ DOMAIN result = {"success", "error", "data"}
          /\ result.success = FALSE
          /\ {"code", "message"} \subseteq DOMAIN result.error
          /\ result.error.message # ""
          /\ result.data = Null
    /\ (pc \notin Terminal) => (result = Null)

\* A call failed after basic info was extracted and content was cleaned.
C2_Witness ==
    /\ pc = "Failed"
    /\ basicInfo # Null
    /\ content # <<>>
    /\ result.data = Null

\* The faults of basic-info extraction, told from the call's arguments.
HintFault == pageInfo = Null
CategoryFault ==
    /\ options.linkOptions = Null
    /\ \E k \in 1..Len(html.doc.categories) :
            html.doc.categories[k].name # "" /\ StartsWith(html.doc.categories[k].url, "/")
NothingLocated ==
    /\ options.contentSelector \notin html.doc.matches
    /\ \A k \in 1..Len(FallbackSelectors) : FallbackSelectors[k] \notin html.doc.matches

\* The kind the four-kind scheme gives the failure of this call.
DocumentedKind ==
    IF html.kind # "string" THEN "InvalidInput"
    ELSE IF html.doc.matches \cap Indicators = {} THEN "NotAWikiPage"
    ELSE IF NothingLocated /\ ~HintFault /\ ~CategoryFault THEN "ContentNotFound"
    ELSE "InternalExtractionError"

\* C3 as stated: every failed extraction reports the error kind that matches
\* its cause (InvalidInput, NotAWikiPage, ContentNotFound or
\* InternalExtractionError).
C3_KindMatchesCause == (pc = "Failed") => (result.error.code = DocumentedKind)

\* C3 amended: every failed extraction carries the one code PARSE_ERROR and
\* the cause is told by the message alone: the input message exactly when the
\* markup is no non-empty string, the validator message exactly when a string
\* markup has none of the four markers, the locator message exactly when the
\* page is accepted, basic-info extraction raised no fault and no content
\* selector matches, and the fault's own message for any other fault.
C3_OneCodeMessageTellsCause ==
    (pc = "Failed") =>
        /\ result.error.code = "PARSE_ERROR"
        /\ (DocumentedKind = "InvalidInput")
              <=> (result.error.message = "HTML content must be a non-empty string")
        /\ (DocumentedKind = "NotAWikiPage")
              <=> (result.error.message = "not a valid wiki page HTML")
        /\ (DocumentedKind = "ContentNotFound")
              <=> (result.error.message = "main content area not found")
        /\ (DocumentedKind = "InternalExtractionError")
              <=> (\E prop \in {"title", "namespace", "baseUrl", "forEach",
                                "convertToAbsolute", "convertInternalLinks"} :
                      result.error.message =
                          "Cannot read properties of null (reading '" \o prop \o "')")

\* A page the validator accepted failed because no content selector matched.
C3_Witness ==
    /\ pc = "Failed"
    /\ html.kind = "string"
    /\ html.doc.matches \cap Indicators # {}
    /\ result.error.code = "PARSE_ERROR"
    /\ result.error.message = "main content area not found"

\* The state of the documented state machine a position of the call is in.
SpecState(p) ==
    CASE p \in {"Validated", "WikiPage", "InfoDone"} -> "Validated"
      [] p \in {"Located", "Content"} -> "Located"
      [] p \in {"Cleaned", "ImagesDone", "LinksDone"} -> "Cleaned"
      [] OTHER -> p

StateOrder == << "Start", "Validated", "Located", "Cleaned", "Normalized", "Extracted",
                 "Done", "Failed" >>
Rank(st) == CHOOSE k \in 1..Len(StateOrder) : StateOrder[k] = st

\* C4 as stated: Failed is entered only from Start, Validated and Located;
\* a call that has reached Cleaned does not fail.
C4_FailedOnlyBeforeCleaned ==
    [][(pc' = "Failed") => (SpecState(pc) \in {"Start", "Validated", "Located"})]_vars

\* C4 amended: the call moves through Start, Validated, Located, Cleaned,
\* Normalized, Extracted, Done in that order and enters no state twice;
\* Failed is entered from Start, Validated, Located and also from Cleaned,
\* there only when an image or link option group is null; a call that has
\* reached Normalized does not fail.
C4_StraightLine ==
    [][/\ Rank(SpecState(pc')) >= Rank(SpecState(pc))
       /\ (SpecState(pc') # SpecState(pc) /\ pc' # "Failed")
             => (Rank(SpecState(pc')) = Rank(SpecState(pc)) + 1)
       /\ (pc' = "Failed") =>
             /\ SpecState(pc) \in {"Start", "Validated", "Located", "Cleaned"}
             /\ (SpecState(pc) = "Cleaned")
                   => (options.imageOptions = Null \/ options.linkOptions = Null)]_vars

\* A call failed in link normalization, after cleaning and image
\* normalization were done.
C4_Witness ==
    /\ pc = "Failed"
    /\ result.error.message = "Cannot read properties of null (reading 'convertInternalLinks')"
    /\ options.linkOptions = Null

\* Whether a text holds a whitespace run with three or more line feeds.
HasBlankLines(s) ==
    \E i \in 1..Len(s) :
        s[i] = "n" /\ Cardinality({k \in i..WsEnd(s, i) : s[k] = "n"}) >= 3

\* The p, div and span elements of t that have no child node.
EmptyBlocks(t) ==
    {i \in Live(t) : t[i].tag \in {"p", "div", "span"} /\ ~\E j \in Live(t) : t[j].parent = i}

RemovalMatches(t, sels) == UNION {Find(t, sels[k]) : k \in 1..Len(sels)}

C5_WitnessSibling ==
    /\ pc = "Cleaned"
    /\ Find(content, Adjacent("toc", "mw-empty-elt")) # {}

\* The page content as it arrived: the subtree below the content container.
PageContent == html.doc.tree

\* An image whose declared width or height is present and below the minimum.
DeclaredSmall(nd, min) ==
    nd.tag = "img" /\ ((nd.width >= 0 /\ nd.width < min) \/ (nd.height >= 0 /\ nd.height < min))

\* The thumbnail and figure containers around node i of t.
ContainersAround(t, i) ==
    {j \in Ancestors(t, i) :
        t[j].tag = "figure" \/ Includes(t[j].cls, "thumb") \/ Includes(t[j].cls, "thumbinner")}

\* C6: with removeSmallImages enabled and minWidth = minHeight = 50, every
\* image whose declared width or height is present and below the minimum is
\* absent from components.images of a successful result, and its enclosing
\* thumbnail/figure container is absent from content.html, wherever the
\* image is placed.
C6_SmallImagesGone ==
    (/\ pc = "Done"
     /\ options.imageOptions # Null
     /\ options.imageOptions.removeSmallImages
     /\ options.imageOptions.minWidth = 50
     /\ options.imageOptions.minHeight = 50) =>
        \A i \in Live(PageContent) :
            DeclaredSmall(PageContent[i], 50) =>
                /\ \A k \in 1..Len(result.data.content.components.images) :
                        result.data.content.components.images[k].node # i
                /\ \A j \in ContainersAround(PageContent, i) :
                        j \notin Live(result.data.content.html)

\* C7: with absolutization enabled, every img src and every anchor href that
\* began with '/' before normalization and whose element is still present
\* afterwards is the base URL followed by the original value, and starts
\* with a scheme; values that do not begin with '/' are unchanged.
C7_Absolutized ==
    /\ (pc = "ImagesDone" /\ options.imageOptions # Null
            /\ options.imageOptions.convertToAbsolute) =>
          \A i \in Live(content) :
              (content[i].tag = "img") =>
                  IF Len(before[i].src) > 0 /\ before[i].src[1] = "/"
                  THEN /\ content[i].src = options.linkOptions.baseUrl \o before[i].src
                       /\ SubSeq(content[i].src, 1, 4) = BaseUrl
                  ELSE content[i].src = before[i].src
    /\ (pc = "LinksDone" /\ options.linkOptions # Null
            /\ options.linkOptions.convertInternalLinks) =>
          \A i \in Live(content) :
              (content[i].tag = "a") =>
                  IF Len(before[i].href) > 0 /\ before[i].href[1] = "/"
                  THEN /\ content[i].href = options.linkOptions.baseUrl \o before[i].href
                       /\ SubSeq(content[i].href, 1, 4) = BaseUrl
                  ELSE content[i].href = before[i].href

\* Link normalization rewrote a root-relative href and left an absolute one.
C7_Witness ==
    /\ pc = "LinksDone"
    /\ options.linkOptions # Null
    /\ options.linkOptions.convertInternalLinks
    /\ \E i \in Live(content) :
            content[i].tag = "a" /\ before[i].href = PageHref
                /\ content[i].href = BaseUrl \o PageHref
    /\ \E i \in Live(content) :
            content[i].tag = "a" /\ before[i].href = ExtHref /\ content[i].href = ExtHref

\* An edit-action link, a missing-page link or a self-link.
DeadAnchor(nd) ==
    /\ nd.tag = "a"
    /\ \/ \E k \in 1..Len(nd.href) : nd.href[k] \in {"action=edit", "redlink=1"}
       \/ \E k \in 1..Len(nd.cls) : nd.cls[k] = "mw-selflink"

\* C8: after link normalization no edit-action, missing-page or self-link
\* anchor remains; each has been replaced in place by its own text content
\* (no element stands where it stood and the text of the content is what it
\* was), and every other anchor is still an anchor.
C8_DeadLinksUnwrapped ==
    (pc = "LinksDone") =>
        /\ \A i \in Live(content) : ~DeadAnchor(content[i])
        /\ \A i \in Live(before) :
              (before[i].tag = "a") =>
                  IF DeadAnchor(before[i])
                  THEN content[i].tag \in {"#text", "#gone"}
                  ELSE content[i].tag = "a"
        /\ TextFrom(content, Live(content), 1) = TextFrom(before, Live(before), 1)

Occurrences(seq, x) == Cardinality({k \in 1..Len(seq) : seq[k] = x})
TablesAround(t, i) == {j \in Ancestors(t, i) : t[j].tag = "table"}

\* C9 as stated: after table normalization every table carries the class
\* wikitable exactly once, and none of style, border, cellpadding,
\* cellspacing remains on a table or on any descendant of a table.
C9_TablesCanonical ==
    (pc = "Normalized") =>
        \A i \in Live(content) :
            /\ (content[i].tag = "table") => (Occurrences(content[i].cls, "wikitable") = 1)
            /\ (content[i].tag = "table" \/ TablesAround(content, i) # {})
                  => (content[i].attrs \cap PresentationAttrs = {})

\* C9 amended: after table normalization every table carries the class
\* wikitable, added once when it was absent and left as it was when present;
\* none of style, border, cellpadding, cellspacing remains on a table; a
\* descendant of a table that is no table itself loses style and nothing else.
C9_TablesNormalized ==
    (pc = "Normalized") =>
        \A i \in Live(content) :
            /\ (content[i].tag = "table") =>
                  /\ Occurrences(content[i].cls, "wikitable")
                        = (IF Occurrences(before[i].cls, "wikitable") = 0 THEN 1
                           ELSE Occurrences(before[i].cls, "wikitable"))
                  /\ content[i].attrs \cap PresentationAttrs = {}
            /\ (content[i].tag # "table" /\ TablesAround(content, i) # {})
                  => (content[i].attrs = before[i].attrs \ {"style"})
            /\ (content[i].tag # "table" /\ TablesAround(content, i) = {})
                  => (content[i].attrs = before[i].attrs)

\* A table got the class added and lost its attributes while a descendant
\* kept border.
C9_Witness ==
    /\ pc = "Normalized"
    /\ \E i \in Live(content) : \E j \in Live(content) :
          /\ content[i].tag = "table"
          /\ before[i].cls = <<>> /\ before[i].attrs = PresentationAttrs
          /\ content[i].cls = <<"wikitable">> /\ content[i].attrs = {}
          /\ i \in Ancestors(content, j)
          /\ before[j].attrs = {"style", "border"}
          /\ content[j].attrs = {"border"}

\* The table-of-contents containers of t and the anchors they hold.
Containers(t) ==
    {i \in Live(t) : t[i].tag # "#text" /\ (t[i].id = "toc" \/ Includes(t[i].cls, "toc"))}
ContainedAnchors(t) ==
    {j \in Live(t) : t[j].tag = "a" /\ Ancestors(t, j) \cap Containers(t) # {}}

\* C10: for every successful result, components.toc is null when the page
\* content has no table-of-contents container; it is non-null with no items
\* when the page content has a container with zero anchors (also one with no
\* children at all); otherwise items has one entry, in document order, for
\* each contained anchor with non-empty text and href.
C10_TocNullOrItems ==
    (pc = "Done") =>
        LET toc == result.data.content.components.toc
            final == result.data.content.html
            listed == SeqOf({j \in ContainedAnchors(final) :
                                Trim(TextOf(final, j)) # <<>> /\ final[j].href # <<>>})
        IN IF Containers(PageContent) = {} THEN toc = Null
           ELSE IF ContainedAnchors(PageContent) = {} THEN toc # Null /\ toc.items = <<>>
           ELSE /\ toc # Null
                /\ Len(toc.items) = Len(listed)
                /\ \A k \in 1..Len(listed) :
                      /\ toc.items[k].text = Trim(TextOf(final, listed[k]))
                      /\ toc.items[k].href = final[listed[k]].href

\* C11: in every successful result the three counts of meta are the lengths
\* of the lists of content.components: imageCount of images, tableCount of
\* tables, sectionCount of sections.
C11_CountsAreLengths ==
    (pc = "Done") =>
        /\ result.success
        /\ result.data.meta.imageCount = Len(result.data.content.components.images)
        /\ result.data.meta.tableCount = Len(result.data.content.components.tables)
        /\ result.data.meta.sectionCount = Len(result.data.content.components.sections)

\* A successful result with one section and one image and no table.
C11_Witness ==
    /\ pc = "Done"
    /\ result.data.meta.sectionCount = 1
    /\ result.data.meta.imageCount = 1
    /\ result.data.meta.tableCount = 0
    /\ Len(result.data.content.components.images) = 1

\* The selectors in the order the locator is to consult them.
LocatorOrder ==
    << options.contentSelector, "#mw-content-text", ".mw-body-content",
       "#content .mw-content-ltr" >>
LocatorHits == {k \in 1..4 : LocatorOrder[k] \in html.doc.matches}

\* C16: the locator returns the match of the first selector, in the order
\* contentSelector, '#mw-content-text', '.mw-body-content',
\* '#content .mw-content-ltr', that matches anything; its result is empty,
\* and the call fails for want of content, exactly when none of the four
\* matches.
C16_FirstMatchInOrder ==
    [][ /\ (pc = "InfoDone" /\ pc' = "Located") =>
                (located' = IF LocatorHits = {} THEN ""
                            ELSE LocatorOrder[SetMin(LocatorHits)])
        /\ (pc = "Located") =>
                /\ (pc' = "Failed") <=> (LocatorHits = {})
                /\ (pc' = "Failed") =>
                        (result'.error.message = "main content area not found")
                /\ (pc' # "Failed") => (pc' = "Content" /\ located # "")
      ]_vars

\* Neither contentSelector nor '#mw-content-text' matched, the two last
\* fallbacks both did, and the first of them was taken.
C16_Witness ==
    /\ pc = "Content"
    /\ located = ".mw-body-content"
    /\ options.contentSelector \notin html.doc.matches
    /\ "#mw-content-text" \notin html.doc.matches
    /\ "#content .mw-content-ltr" \in html.doc.matches

\* The tables of the returned content, and the place of table i among them.
TablesOf(t) == {i \in Live(t) : t[i].tag = "table"}
TableIndex(t, i) == Cardinality({j \in TablesOf(t) : j <= i})

\* The table an element of a table belongs to, and a table's own rows.
TableAround(t, j) == SetMax({a \in Ancestors(t, j) : t[a].tag = "table"})
RowsOf(t, i) ==
    {j \in Descendants(t, i) : t[j].tag = "tr" /\ TableAround(t, j) = i}
CellsOf(t, r) == {j \in Live(t) : t[j].parent = r /\ t[j].tag \in {"th", "td"}}

\* The summary the description of a table calls for.
SummaryDue(t, i, summary) ==
    /\ summary.rowCount = Cardinality(RowsOf(t, i))
    /\ summary.colCount = IF RowsOf(t, i) = {} THEN 0
                          ELSE Cardinality(CellsOf(t, SetMin(RowsOf(t, i))))
    /\ summary.hasHeader <=> (\E j \in Descendants(t, i) : t[j].tag = "th")

\* C15: a table with no rows does not fail the call and is summarized with
\* rowCount 0 and colCount 0; every table of the content has exactly one
\* summary, with its number of rows, the number of header and data cells of
\* its first row, and whether it contains a header cell.
C15_TableSummaries ==
    (pc \in {"Extracted", "Done"}) =>
        /\ Len(components.tables) = Cardinality(TablesOf(content))
        /\ \A i \in TablesOf(content) :
                SummaryDue(content, i, components.tables[TableIndex(content, i)])
        /\ (pc = "Done") => result.success

\* The same for the tables that hold no other table.
C15_FlatTableSummaries ==
    (pc \in {"Extracted", "Done"}) =>
        /\ Len(components.tables) = Cardinality(TablesOf(content))
        /\ \A i \in TablesOf(content) :
                (\A j \in Descendants(content, i) : content[j].tag # "table")
                    => SummaryDue(content, i, components.tables[TableIndex(content, i)])
        /\ (pc = "Done") => result.success

\* A table of two rows of two cells, the first a header row.
C15_WitnessTwoByTwo ==
    /\ pc = "Done"
    /\ Len(components.tables) = 1
    /\ components.tables[1].rowCount = 2
    /\ components.tables[1].colCount = 2
    /\ components.tables[1].hasHeader
    /\ Cardinality({j \in Live(content) : content[j].tag = "td"}) = 2

\* A table without rows in a successful result.
C15_WitnessNoRows ==
    /\ pc = "Done" /\ result.success
    /\ \E k \in 1..Len(components.tables) :
            components.tables[k].rowCount = 0 /\ components.tables[k].colCount = 0

\* ------------------------------------------------------------------------
\* The parser's options between calls
\* ------------------------------------------------------------------------

MaxUpdates == 2

\* Option objects a caller passes to updateOptions: those of Overrides, an
\* option group that names one field only, an empty array, and two keys at
\* once.
Updates ==
    Overrides \cup
    { [imageOptions |-> [removeSmallImages |-> FALSE]],
      [removeSelectors |-> Arr(<<>>)],
      [contentSelector |-> ".custom", linkOptions |-> Null] }

\* new PageContentParser(o)
InitOptions ==
    /\ \E o \in Updates : options = Construct(o) /\ applied = <<o>>
    /\ ParserIdle
    /\ PortsIdle
    /\ ConfigIdle

\* updateOptions(newOptions)
UpdateOptions ==
    /\ Len(applied) <= MaxUpdates
    /\ \E newOptions \in Updates :
            /\ options' = Merge(options, newOptions)
            /\ applied' = Append(applied, newOptions)
    /\ UNCHANGED <<html, pageInfo, pc, basicInfo, located, before, content, components,
                   result, outcome>>
    /\ UNCHANGED <<portVars, configVars>>

\* getOptions(): return { ...this.options }
GetOptions ==
    /\ result' = Merge(options, NoOverrides)
    /\ UNCHANGED <<options, html, pageInfo, pc, basicInfo, located, before, content,
                   components, outcome>>
    /\ UNCHANGED <<applied, portVars, configVars>>

NextOptions ==
    \/ UpdateOptions
    \/ GetOptions

SpecOptions == InitOptions /\ [][NextOptions]_vars

\* The option objects applied so far that name key k.
Naming(k) == {i \in 1..Len(applied) : k \in DOMAIN applied[i]}

\* C12: after the constructor and any sequence of updateOptions calls, every
\* top-level key named by an applied option object holds the value of the
\* latest one that names it, whole (arrays and option groups replaced, not
\* merged), and every key never named holds its documented default.
C12_ShallowMerge ==
    /\ DOMAIN options = OptionKeys \cup UNION {DOMAIN applied[i] : i \in 1..Len(applied)}
    /\ \A k \in DOMAIN options :
            options[k] = IF Naming(k) = {} THEN DefaultOptions[k]
                         ELSE applied[SetMax(Naming(k))][k]
    /\ (result # Null) => (DOMAIN result \subseteq DOMAIN options)

\* Two updates after the constructor: the image options were replaced by a
\* group of one field, the selector array by an empty array, and the link
\* options were never named.
C12_Witness ==
    /\ Len(applied) = 3
    /\ options.imageOptions = [removeSmallImages |-> FALSE]
    /\ options.removeSelectors = Arr(<<>>)
    /\ options.linkOptions = DefaultLinkOptions
    /\ result = options

\* ------------------------------------------------------------------------
\* The port manager: isPortAvailable, findAvailablePort, getAvailablePort
\* ------------------------------------------------------------------------

MinPort == 1
MaxPort == 65535
MaxAttempts == 2
MaxEnvMoves == 2

PreferredPorts == {3000, 65534, 65535}

\* The ports a call with port p can come to probe.
Nearby(p) == {q \in p..(p + MaxAttempts) : q <= MaxPort}

Running == exitCode = -1
Fulfilled(v) == [state |-> "fulfilled", value |-> v]
Rejected == [state |-> "rejected"]

\* Whether the program holds port q: its probe server or its server is bound.
Bound(q) ==
    \/ probe.st = "bound" /\ probe.port = q
    \/ server.st \in {"bound", "listening"} /\ server.port = q

\* Another process binds a port or releases one.
EnvBind ==
    /\ Running /\ proc # "done" /\ envMoves < MaxEnvMoves
    /\ \E q \in (IF entry = "waitForPort" THEN {args.port} ELSE Nearby(args.port)) \ held :
            ~Bound(q) /\ held' = held \cup {q}
    /\ envMoves' = envMoves + 1
    /\ UNCHANGED <<entry, args, proc, probe, attempt, probes, settled, server, conns,
                   exitCode, now, startTime>>
    /\ UNCHANGED <<parserVars, applied, configVars>>

EnvRelease ==
    /\ Running /\ proc # "done" /\ envMoves < MaxEnvMoves
    /\ \E q \in held : held' = held \ {q}
    /\ envMoves' = envMoves + 1
    /\ UNCHANGED <<entry, args, proc, probe, attempt, probes, settled, server, conns,
                   exitCode, now, startTime>>
    /\ UNCHANGED <<parserVars, applied, configVars>>

\* resolve(v) of a promise: only the first call takes effect.
Resolve(pr, v) == IF pr.resolved THEN pr ELSE [pr EXCEPT !.resolved = TRUE, !.value = v]

\* isPortAvailable(port) up to the end of the executor: net.createServer(),
\* server.listen(port, callback), server.on('error', ...).  listen binds at
\* once; 'listening' or 'error' is emitted on a later tick.
StartProbe(port) ==
    [port |-> port, st |-> IF port \in held THEN "failed" ELSE "bound",
     resolved |-> FALSE, value |-> FALSE, at |-> now]

\* A listen callback that reports the port at once and leaves the server open.
ProbeOnListeningReports ==
    /\ Running /\ probe.st = "bound"
    /\ probe' = Resolve(probe, TRUE)
    /\ ~probe.resolved
    /\ UNCHANGED <<held, envMoves, entry, args, proc, attempt, probes, settled, server,
                   conns, exitCode, now, startTime>>
    /\ UNCHANGED <<parserVars, applied, configVars>>

\* The listen callback: it is the 'listening' listener and gets no argument,
\* so it registers the 'close' listener and closes the server.
ProbeOnListening ==
    /\ Running /\ probe.st = "bound"
    /\ probe' = [probe EXCEPT !.st = "closing"]
    /\ UNCHANGED <<held, envMoves, entry, args, proc, attempt, probes, settled, server,
                   conns, exitCode, now, startTime>>
    /\ UNCHANGED <<parserVars, applied, configVars>>

\* server.on('error', () => resolve(false))
ProbeOnError ==
    /\ Running /\ probe.st = "failed"
    /\ probe' = Resolve([probe EXCEPT !.st = "errored"], FALSE)
    /\ UNCHANGED <<held, envMoves, entry, args, proc, attempt, probes, settled, server,
                   conns, exitCode, now, startTime>>
    /\ UNCHANGED <<parserVars, applied, configVars>>

\* The probe server emits 'error' while it is open: resolve(false) again.
ProbeOnLateError ==
    /\ Running /\ probe.st = "closing"
    /\ probe' = Resolve([probe EXCEPT !.st = "closing after error"], FALSE)
    /\ UNCHANGED <<held, envMoves, entry, args, proc, attempt, probes, settled, server,
                   conns, exitCode, now, startTime>>
    /\ UNCHANGED <<parserVars, applied, configVars>>

\* server.once('close', () => resolve(true))
ProbeOnClose ==
    /\ Running /\ probe.st \in {"closing", "closing after error"}
    /\ probe' = Resolve([probe EXCEPT !.st = "closed"], TRUE)
    /\ UNCHANGED <<held, envMoves, entry, args, proc, attempt, probes, settled, server,
                   conns, exitCode, now, startTime>>
    /\ UNCHANGED <<parserVars, applied, configVars>>

\* What the caller of isPortAvailable notes when the await resumes.
Noted == [port |-> probe.port, ok |-> probe.value, at |-> probe.at,
          closed |-> probe.st = "closed"]

\* getAvailablePort returns v or throws, to the console or into startServer.
GapReturn(v) ==
    /\ settled' = Fulfilled(v)
    /\ proc' = IF entry = "startServer" THEN "listen" ELSE "done"
GapThrow ==
    /\ settled' = Rejected
    /\ proc' = IF entry = "startServer" THEN "catch" ELSE "done"

\* if (await isPortAvailable(preferredPort)), up to the await
GapStart ==
    /\ Running /\ proc = "gap"
    /\ probe' = StartProbe(args.port)
    /\ proc' = "gap:first"
    /\ UNCHANGED <<held, envMoves, entry, args, attempt, probes, settled, server, conns,
                   exitCode, now, startTime>>
    /\ UNCHANGED <<parserVars, applied, configVars>>

\* ... from the await on: return preferredPort, or call findAvailablePort
GapFirst ==
    /\ Running /\ proc = "gap:first" /\ probe.resolved
    /\ probes' = Append(probes, Noted)
    /\ probe' = NoProbe
    /\ IF probe.value
       THEN GapReturn(args.port) /\ UNCHANGED attempt
       ELSE proc' = "find" /\ attempt' = 0 /\ UNCHANGED settled
    /\ UNCHANGED <<held, envMoves, entry, args, server, conns, exitCode, now, startTime>>
    /\ UNCHANGED <<parserVars, applied, configVars>>

\* A range check that leaves out the highest port.
SkippedFromMax(port) == port < MinPort \/ port >= MaxPort

\* if (port < 1 || port > 65535) continue
Skipped(port) == port < MinPort \/ port > MaxPort

\* One turn of the loop of findAvailablePort(preferredPort + 1, maxAttempts)
\* up to its await, and what getAvailablePort does when the loop ends.
FindStep ==
    /\ Running /\ proc = "find"
    /\ IF attempt >= args.maxAttempts
       THEN GapThrow /\ UNCHANGED <<probe, attempt>>
       ELSE IF Skipped(args.port + 1 + attempt)
       THEN attempt' = attempt + 1 /\ UNCHANGED <<proc, probe, settled>>
       ELSE /\ probe' = StartProbe(args.port + 1 + attempt)
            /\ proc' = "find:probe"
            /\ UNCHANGED <<attempt, settled>>
    /\ UNCHANGED <<held, envMoves, entry, args, probes, server, conns, exitCode, now,
                   startTime>>
    /\ UNCHANGED <<parserVars, applied, configVars>>

\* ... from the await on: return port, or take the next turn
FindProbe ==
    /\ Running /\ proc = "find:probe" /\ probe.resolved
    /\ probes' = Append(probes, Noted)
    /\ probe' = NoProbe
    /\ IF probe.value
       THEN GapReturn(probe.port) /\ UNCHANGED attempt
       ELSE proc' = "find" /\ attempt' = attempt + 1 /\ UNCHANGED settled
    /\ UNCHANGED <<held, envMoves, entry, args, server, conns, exitCode, now, startTime>>
    /\ UNCHANGED <<parserVars, applied, configVars>>

\* getAvailablePort(preferredPort, { maxAttempts }) is called.
InitPorts ==
    /\ \E p \in PreferredPorts : \E m \in 0..MaxAttempts :
            /\ args = [port |-> p, maxAttempts |-> m]
            /\ held \in SUBSET Nearby(p)
    /\ entry = "getAvailablePort" /\ proc = "gap"
    /\ envMoves = 0 /\ probe = NoProbe /\ attempt = 0 /\ probes = <<>> /\ settled = Pending
    /\ server = NoServer /\ conns = 0 /\ exitCode = -1 /\ now = 0 /\ startTime = 0
    /\ options = Null /\ ParserIdle /\ applied = <<>> /\ ConfigIdle

NextPorts ==
    \/ EnvBind
    \/ EnvRelease
    \/ ProbeOnListening
    \/ ProbeOnError
    \/ ProbeOnLateError
    \/ ProbeOnClose
    \/ GapStart
    \/ GapFirst
    \/ FindStep
    \/ FindProbe

\* The event loop runs every callback that is due.
SpecPorts ==
    /\ InitPorts /\ [][NextPorts]_vars
    /\ WF_vars(ProbeOnListening) /\ WF_vars(ProbeOnError) /\ WF_vars(ProbeOnClose)
    /\ WF_vars(GapStart) /\ WF_vars(GapFirst) /\ WF_vars(FindStep) /\ WF_vars(FindProbe)

\* ------------------------------------------------------------------------
\* The port manager: waitForPort
\* ------------------------------------------------------------------------

MaxTimeout == 2
MaxInterval == 1
\* How much longer than asked a timer can take, and how long a probe.
MaxLag == 1

\* A loop condition that lets the last turn start when the timeout is over.
WithinTimeoutInclusive(t) == t - startTime <= args.timeout

\* Date.now() - startTime < timeout
WithinTimeout(t) == t - startTime < args.timeout

\* const startTime = Date.now()
WaitEnter ==
    /\ proc = "wait"
    /\ startTime' = now
    /\ proc' = "wait:check"
    /\ UNCHANGED <<held, envMoves, entry, args, probe, attempt, probes, settled, server,
                   conns, exitCode, now>>
    /\ UNCHANGED <<parserVars, applied, configVars>>

\* The loop condition, and a turn of the loop up to its first await; return
\* false when the condition fails.
WaitCheck ==
    /\ proc = "wait:check"
    /\ IF WithinTimeout(now)
       THEN /\ probe' = StartProbe(args.port)
            /\ proc' = "wait:probe"
            /\ UNCHANGED settled
       ELSE /\ settled' = Fulfilled(FALSE)
            /\ proc' = "done"
            /\ UNCHANGED probe
    /\ UNCHANGED <<held, envMoves, entry, args, attempt, probes, server, conns, exitCode,
                   now, startTime>>
    /\ UNCHANGED <<parserVars, applied, configVars>>

\* ... from the await on: return true, or set the timer
WaitProbe ==
    /\ proc = "wait:probe" /\ probe.resolved
    /\ probes' = Append(probes, Noted)
    /\ probe' = NoProbe
    /\ IF probe.value
       THEN settled' = Fulfilled(TRUE) /\ proc' = "done"
       ELSE proc' = "wait:sleep" /\ UNCHANGED settled
    /\ UNCHANGED <<held, envMoves, entry, args, attempt, server, conns, exitCode, now,
                   startTime>>
    /\ UNCHANGED <<parserVars, applied, configVars>>

\* setTimeout(resolve, interval) fires: no sooner than after interval, and
\* after 1 when interval is less than 1.
WaitSleep ==
    /\ proc = "wait:sleep"
    /\ \E lag \in 0..MaxLag :
            now' = now + (IF args.interval < 1 THEN 1 ELSE args.interval) + lag
    /\ proc' = "wait:check"
    /\ UNCHANGED <<held, envMoves, entry, args, probe, attempt, probes, settled, server,
                   conns, exitCode, startTime>>
    /\ UNCHANGED <<parserVars, applied, configVars>>

\* Time passes while a probe is under way.
Tick ==
    /\ proc = "wait:probe" /\ now - probe.at < MaxLag
    /\ now' = now + 1
    /\ UNCHANGED <<held, envMoves, entry, args, proc, probe, attempt, probes, settled,
                   server, conns, exitCode, startTime>>
    /\ UNCHANGED <<parserVars, applied, configVars>>

\* waitForPort(port, { timeout, interval }) is called.
InitWait ==
    /\ \E t \in 0..MaxTimeout : \E d \in 0..MaxInterval :
            args = [port |-> 3000, timeout |-> t, interval |-> d]
    /\ held \in SUBSET {3000}
    /\ entry = "waitForPort" /\ proc = "wait"
    /\ envMoves = 0 /\ probe = NoProbe /\ attempt = 0 /\ probes = <<>> /\ settled = Pending
    /\ server = NoServer /\ conns = 0 /\ exitCode = -1 /\ now = 0 /\ startTime = 0
    /\ options = Null /\ ParserIdle /\ applied = <<>> /\ ConfigIdle

NextWait ==
    \/ EnvBind
    \/ EnvRelease
    \/ ProbeOnListening
    \/ ProbeOnError
    \/ ProbeOnLateError
    \/ ProbeOnClose
    \/ WaitEnter
    \/ WaitCheck
    \/ WaitProbe
    \/ WaitSleep
    \/ Tick

\* The event loop runs every callback that is due, and timers fire.
SpecWait ==
    /\ InitWait /\ [][NextWait]_vars
    /\ WF_vars(ProbeOnListening) /\ WF_vars(ProbeOnError) /\ WF_vars(ProbeOnClose)
    /\ WF_vars(WaitEnter) /\ WF_vars(WaitCheck) /\ WF_vars(WaitProbe) /\ WF_vars(WaitSleep)

\* ------------------------------------------------------------------------
\* The server process: startServer
\* ------------------------------------------------------------------------

MaxConns == 1
MaxSignals == 2

\* let serverPort = config.server.port; if (config.server.autoPort) ... else
\* validatePort(config.server.port)
StartServer ==
    /\ Running /\ proc = "start"
    /\ proc' = IF args.autoPort THEN "gap"
               ELSE IF Skipped(args.port) THEN "catch" ELSE "listen"
    /\ UNCHANGED <<held, envMoves, entry, args, probe, attempt, probes, settled, server,
                   conns, exitCode, now, startTime>>
    /\ UNCHANGED <<parserVars, applied, configVars>>

\* local serverPort
ServerPort == IF args.autoPort THEN settled.value ELSE args.port

\* const server = app.listen(serverPort, ...), server.on('error', ...),
\* process.on('SIGTERM', ...), process.on('SIGINT', ...): listen binds at
\* once; 'listening' or 'error' is emitted on a later tick.
Listen ==
    /\ Running /\ proc = "listen"
    /\ server' = [port |-> ServerPort,
                  st |-> IF ServerPort \in held THEN "failed" ELSE "bound",
                  callbacks |-> <<>>]
    /\ proc' = "serving"
    /\ UNCHANGED <<held, envMoves, entry, args, probe, attempt, probes, settled, conns,
                   exitCode, now, startTime>>
    /\ UNCHANGED <<parserVars, applied, configVars>>

\* The listen callback: the server has started.
ServerOnListening ==
    /\ Running /\ server.st = "bound"
    /\ server' = [server EXCEPT !.st = "listening"]
    /\ UNCHANGED <<held, envMoves, entry, args, proc, probe, attempt, probes, settled,
                   conns, exitCode, now, startTime>>
    /\ UNCHANGED <<parserVars, applied, configVars>>

\* server.on('error', ...): EADDRINUSE; process.exit(1)
ServerOnError ==
    /\ Running /\ server.st = "failed"
    /\ server' = [server EXCEPT !.st = "errored"]
    /\ exitCode' = 1
    /\ UNCHANGED <<held, envMoves, entry, args, proc, probe, attempt, probes, settled,
                   conns, now, startTime>>
    /\ UNCHANGED <<parserVars, applied, configVars>>

\* catch (error) { ... process.exit(1) }
CatchStart ==
    /\ Running /\ proc = "catch"
    /\ proc' = "caught"
    /\ exitCode' = 1
    /\ UNCHANGED <<held, envMoves, entry, args, probe, attempt, probes, settled, server,
                   conns, now, startTime>>
    /\ UNCHANGED <<parserVars, applied, configVars>>

\* A client connects, a connection ends.
ConnOpen ==
    /\ Running /\ server.st = "listening" /\ conns < MaxConns
    /\ conns' = conns + 1
    /\ UNCHANGED <<held, envMoves, entry, args, proc, probe, attempt, probes, settled,
                   server, exitCode, now, startTime>>
    /\ UNCHANGED <<parserVars, applied, configVars>>

ConnEnd ==
    /\ Running /\ conns > 0
    /\ conns' = conns - 1
    /\ UNCHANGED <<held, envMoves, entry, args, proc, probe, attempt, probes, settled,
                   server, exitCode, now, startTime>>
    /\ UNCHANGED <<parserVars, applied, configVars>>

\* SIGTERM or SIGINT: gracefulShutdown calls server.close(callback).  close
\* on a listening server stops it listening and has callback() run at
\* 'close'; close on a server that is not listening has callback(error) run
\* at 'close'.
Signal ==
    /\ Running /\ server.st \in {"listening", "closing"}
    /\ Len(server.callbacks) < MaxSignals
    /\ server' = [server EXCEPT
                    !.st = "closing",
                    !.callbacks = Append(@, IF server.st = "listening" THEN "ok" ELSE "error")]
    /\ UNCHANGED <<held, envMoves, entry, args, proc, probe, attempt, probes, settled,
                   conns, exitCode, now, startTime>>
    /\ UNCHANGED <<parserVars, applied, configVars>>

\* A 'close' that does not wait for the open connections.
ServerOnCloseAtOnce ==
    /\ Running /\ server.st = "closing"
    /\ server' = [server EXCEPT !.st = "closed"]
    /\ exitCode' = IF Head(server.callbacks) = "ok" THEN 0 ELSE 1
    /\ UNCHANGED <<held, envMoves, entry, args, proc, probe, attempt, probes, settled,
                   conns, now, startTime>>
    /\ UNCHANGED <<parserVars, applied, configVars>>

\* 'close' is emitted once every connection has ended; its first listener
\* runs: process.exit(0), or process.exit(1) when it got an error.
ServerOnClose ==
    /\ Running /\ server.st = "closing" /\ conns = 0
    /\ server' = [server EXCEPT !.st = "closed"]
    /\ exitCode' = IF Head(server.callbacks) = "ok" THEN 0 ELSE 1
    /\ UNCHANGED <<held, envMoves, entry, args, proc, probe, attempt, probes, settled,
                   conns, now, startTime>>
    /\ UNCHANGED <<parserVars, applied, configVars>>

\* startServer() is called with the configuration loaded.
InitServer ==
    /\ \E p \in {3000, 65535} : \E m \in 0..MaxAttempts : \E a \in BOOLEAN :
            /\ args = [port |-> p, maxAttempts |-> m, autoPort |-> a]
            /\ held \in SUBSET Nearby(p)
    /\ entry = "startServer" /\ proc = "start"
    /\ envMoves = 0 /\ probe = NoProbe /\ attempt = 0 /\ probes = <<>> /\ settled = Pending
    /\ server = NoServer /\ conns = 0 /\ exitCode = -1 /\ now = 0 /\ startTime = 0
    /\ options = Null /\ ParserIdle /\ applied = <<>> /\ ConfigIdle

NextServer ==
    \/ EnvBind
    \/ EnvRelease
    \/ ProbeOnListening
    \/ ProbeOnError
    \/ ProbeOnLateError
    \/ ProbeOnClose
    \/ GapStart
    \/ GapFirst
    \/ FindStep
    \/ FindProbe
    \/ StartServer
    \/ Listen
    \/ ServerOnListening
    \/ ServerOnError
    \/ CatchStart
    \/ ConnOpen
    \/ ConnEnd
    \/ Signal
    \/ ServerOnClose

\* The event loop runs every callback that is due, and every connection
\* ends: the server ends idle ones and the handlers bound their requests.
SpecServer ==
    /\ InitServer /\ [][NextServer]_vars
    /\ WF_vars(ProbeOnListening) /\ WF_vars(ProbeOnError) /\ WF_vars(ProbeOnClose)
    /\ WF_vars(GapStart) /\ WF_vars(GapFirst) /\ WF_vars(FindStep) /\ WF_vars(FindProbe)
    /\ WF_vars(StartServer) /\ WF_vars(Listen) /\ WF_vars(ServerOnListening)
    /\ WF_vars(ServerOnError) /\ WF_vars(CatchStart) /\ WF_vars(ConnEnd)
    /\ WF_vars(ServerOnClose)

\* ------------------------------------------------------------------------
\* The configuration module
\* ------------------------------------------------------------------------

DefaultPort == 3000
DefaultRequestTimeout == 10000
DefaultMaxRetries == 3
MinRequestTimeout == 1000
MaxMaxRetries == 10

\* A variable that is not set, and one whose text does not start with a number.
Unset == [set |-> FALSE, numeric |-> FALSE, n |-> 0]
Text == [set |-> TRUE, numeric |-> FALSE, n |-> 0]
\* A variable whose text is the decimal numeral of n.
Numeral(n) == [set |-> TRUE, numeric |-> TRUE, n |-> n]

\* parseInt(value): NaN for undefined and for text without leading digits.
ParseInt(value) == [nan |-> ~value.numeric, n |-> value.n]

\* x || fallback: NaN and 0 are falsy.
OrElse(x, fallback) == IF x.nan \/ x.n = 0 THEN fallback ELSE x.n

\* The message validateConfig throws, "" when it returns.
ValidateConfig(c) ==
    IF c.wiki.baseUrl = "" THEN "Required configuration missing: wiki.baseUrl"
    ELSE IF c.wiki.requestTimeout < MinRequestTimeout
    THEN "REQUEST_TIMEOUT must be at least 1000ms"
    ELSE IF c.wiki.maxRetries < 0 \/ c.wiki.maxRetries > MaxMaxRetries
    THEN "MAX_RETRIES must be between 0 and 10"
    ELSE IF c.server.port < MinPort \/ c.server.port > MaxPort
    THEN "PORT must be between 1 and 65535"
    ELSE ""

PortSettings == {Unset, Text} \cup {Numeral(n) : n \in {-1, 0, 1, 8080, 65535, 65536}}
TimeoutSettings == {Unset, Text} \cup {Numeral(n) : n \in {-1, 0, 999, 1000, 5000}}
RetrySettings == {Unset, Text} \cup {Numeral(n) : n \in -1..(MaxMaxRetries + 1)}

\* The module is required with the environment set.
InitConfig ==
    /\ env \in [PORT : PortSettings, REQUEST_TIMEOUT : TimeoutSettings,
                MAX_RETRIES : RetrySettings]
    /\ config = Null /\ loaded = "start"
    /\ options = Null /\ ParserIdle /\ applied = <<>> /\ PortsIdle

\* const config = { ... }
BuildConfig ==
    /\ loaded = "start"
    /\ config' = [server |-> [port |-> OrElse(ParseInt(env.PORT), DefaultPort)],
                  wiki |-> [baseUrl |-> "https://zh.minecraft.wiki",
                            requestTimeout |-> OrElse(ParseInt(env.REQUEST_TIMEOUT),
                                                      DefaultRequestTimeout),
                            maxRetries |-> OrElse(ParseInt(env.MAX_RETRIES),
                                                  DefaultMaxRetries)]]
    /\ loaded' = "built"
    /\ UNCHANGED <<env, parserVars, applied, portVars>>

\* try { validateConfig() } catch (error) { ...; process.exit(1) }
ValidateOnLoad ==
    /\ loaded = "built"
    /\ IF ValidateConfig(config) # ""
       THEN loaded' = "exited" /\ exitCode' = 1
       ELSE loaded' = "exported" /\ UNCHANGED exitCode
    /\ UNCHANGED <<env, config, parserVars, applied>>
    /\ UNCHANGED <<held, envMoves, entry, args, proc, probe, attempt, probes, settled,
                   server, conns, now, startTime>>

NextConfig ==
    \/ BuildConfig
    \/ ValidateOnLoad

SpecConfig == InitConfig /\ [][NextConfig]_vars

\* The ports findAvailablePort is to try for the call in progress.
Candidates ==
    {q \in (args.port + 1)..(args.port + args.maxAttempts) : 1 <= q /\ q <= 65535}

ProbedPorts(from) == {probes[i].port : i \in from..Len(probes)}

\* C13: getAvailablePort resolves to preferredPort when its probe finds it
\* available; otherwise the valid ports above it, up to preferredPort +
\* maxAttempts, are probed in increasing order up to the first success,
\* which is the port resolved to; the call rejects exactly when no probe
\* succeeded.  A returned port is never below preferredPort, is within
\* 1..65535 when it comes from the search, and was seen available by a probe
\* that had closed its server.
C13_PortChoice ==
    (entry = "getAvailablePort" /\ proc = "done") =>
        /\ Len(probes) >= 1 /\ probes[1].port = args.port
        /\ probes[1].ok => (settled = Fulfilled(args.port) /\ Len(probes) = 1)
        /\ \A i \in 1..Len(probes) : probes[i].ok => (i = Len(probes))
        /\ \A i \in 2..Len(probes) : probes[i].port > probes[i - 1].port
        /\ (settled.state = "rejected") <=> (\A i \in 1..Len(probes) : ~probes[i].ok)
        /\ (settled.state = "rejected") => (ProbedPorts(2) = Candidates)
        /\ (settled.state = "fulfilled") =>
                /\ settled.value = probes[Len(probes)].port
                /\ probes[Len(probes)].ok /\ probes[Len(probes)].closed
                /\ settled.value >= args.port
                /\ (settled.value # args.port) =>
                        /\ settled.value \in Candidates
                        /\ ProbedPorts(2) = {q \in Candidates : q <= settled.value}

\* The preferred port 65534 was taken and the search, which may go two
\* ports up, ended at 65535.
C13_Witness ==
    /\ entry = "getAvailablePort" /\ proc = "done"
    /\ args = [port |-> 65534, maxAttempts |-> 2]
    /\ settled = Fulfilled(65535)
    /\ Len(probes) = 2

\* The preferred port 65534 and port 65535 were taken: the call rejected
\* after two probes, never probing 65536.
C13_WitnessEdge ==
    /\ entry = "getAvailablePort" /\ proc = "done"
    /\ args = [port |-> 65534, maxAttempts |-> 2]
    /\ settled = Rejected
    /\ Len(probes) = 2

Unsettled == probe.st \in {"bound", "failed", "closing"} /\ ~probe.resolved

\* C19: every probe settles with a boolean, true only once its server has
\* emitted 'close' (so the port is released before it is reported), false
\* whenever its server reported an error; whatever order the listen
\* callback, 'error' and 'close' come in, the first resolution stands.
C19_ProbeSettles ==
    /\ [](probe.resolved => (probe.value \in BOOLEAN /\ probe.st # "bound"))
    /\ []((probe.resolved /\ probe.value) => (probe.st = "closed"))
    /\ []((probe.st \in {"errored", "closing after error"})
            => (probe.resolved /\ ~probe.value))
    /\ [][(probe.resolved /\ probe'.st # "none")
            => (probe'.resolved /\ probe'.value = probe.value)]_vars
    /\ [](\A i \in 1..Len(probes) : probes[i].ok => probes[i].closed)
    /\ (Unsettled ~> probe.resolved)

\* A probe resolved false on an error after it had listened, and its 'close'
\* came afterwards.
C19_Witness ==
    /\ probe.st = "closed" /\ probe.resolved /\ ~probe.value

\* C14: waitForPort ends for every finite timeout: with true when a probe
\* succeeded, and only then; with false when the timeout is over and no probe
\* succeeded; and no probe is started once the timeout is over.
C14_WaitEnds ==
    /\ <>(proc = "done")
    /\ []((proc = "done") =>
            /\ settled.state = "fulfilled" /\ settled.value \in BOOLEAN
            /\ settled.value <=> (\E i \in 1..Len(probes) : probes[i].ok)
            /\ (~settled.value) => (now - startTime >= args.timeout))
    /\ [](\A i \in 1..Len(probes) :
            /\ probes[i].at - startTime < args.timeout
            /\ probes[i].ok => (i = Len(probes)))
    /\ []((probe.st # "none") => (probe.at - startTime < args.timeout))

\* The port was taken at the first probe and free at the second, which was
\* made after the timer and within the timeout.
C14_Witness ==
    /\ entry = "waitForPort" /\ proc = "done"
    /\ settled = Fulfilled(TRUE)
    /\ Len(probes) = 2 /\ ~probes[1].ok /\ probes[2].at > probes[1].at

\* The timeout ran out on a taken port.
C14_WitnessTimeout ==
    /\ entry = "waitForPort" /\ proc = "done"
    /\ settled = Fulfilled(FALSE)
    /\ Len(probes) = 2

\* C17: with automatic port selection the server listens only on a port
\* getAvailablePort found available, and app.listen on it never fails with
\* EADDRINUSE, however probes, listen and other processes' binds interleave.
C17_ListenNeverInUse ==
    (entry = "startServer" /\ args.autoPort /\ server.st # "none") =>
        /\ settled.state = "fulfilled" /\ server.port = settled.value
        /\ probes[Len(probes)] = [port |-> server.port, ok |-> TRUE,
                                  at |-> 0, closed |-> TRUE]
        /\ server.st \notin {"failed", "errored"}

Accepted(v, lo, hi) == v.numeric /\ lo <= v.n /\ v.n <= hi

\* C20: the loaded configuration keeps every value validateConfig accepts:
\* maxRetries is v for every MAX_RETRIES v in 0..10, and likewise the port
\* and the request timeout; after the load either the process has exited
\* with code 1 or the port is in 1..65535, the request timeout is at least
\* 1000 and maxRetries is in 0..10.
C20_AcceptedValuesKept ==
    /\ (loaded \in {"built", "exported"}) =>
        /\ Accepted(env.MAX_RETRIES, 0, 10) => (config.wiki.maxRetries = env.MAX_RETRIES.n)
        /\ Accepted(env.PORT, 1, 65535) => (config.server.port = env.PORT.n)
        /\ Accepted(env.REQUEST_TIMEOUT, 1000, 5000)
                => (config.wiki.requestTimeout = env.REQUEST_TIMEOUT.n)
    /\ (loaded = "exited") => (exitCode = 1)
    /\ (loaded = "exported") =>
        /\ exitCode = -1
        /\ config.server.port \in 1..65535
        /\ config.wiki.requestTimeout >= 1000
        /\ config.wiki.maxRetries \in 0..10

\* Every accepted value but a MAX_RETRIES of 0 is kept, and 0 becomes 3.
C20_ZeroBecomesDefault ==
    /\ (loaded \in {"built", "exported"}) =>
        /\ Accepted(env.MAX_RETRIES, 1, 10) => (config.wiki.maxRetries = env.MAX_RETRIES.n)
        /\ Accepted(env.MAX_RETRIES, 0, 0) => (config.wiki.maxRetries = 3)
        /\ Accepted(env.PORT, 1, 65535) => (config.server.port = env.PORT.n)
        /\ Accepted(env.REQUEST_TIMEOUT, 1000, 5000)
                => (config.wiki.requestTimeout = env.REQUEST_TIMEOUT.n)
    /\ (loaded = "exited") => (exitCode = 1)
    /\ (loaded = "exported") =>
        /\ exitCode = -1
        /\ config.server.port \in 1..65535
        /\ config.wiki.requestTimeout >= 1000
        /\ config.wiki.maxRetries \in 0..10

====
